---- MODULE Spec2Model ----
(***************************************************************************)
(* Autocrypt peer-state reconciliation of muacrypt / py-autocrypt.         *)
(*                                                                         *)
(* The model follows core/autocrypt/account.py (Config, Account,           *)
(* PeerInfo) and muacrypt/mime.py (header codec and header selection).     *)
(* Python 3 semantics are modelled: ordering comparisons that involve      *)
(* None raise TypeError, filter() returns a lazy (always true) object,     *)
(* indexing an empty string raises IndexError.                             *)
(*                                                                         *)
(* account.py consumes the result d of header selection through a dict     *)
(* interface ("if d", d["to"], d["key"]).  The model reads it as the code  *)
(* around it does: d is true exactly when selection returned a header (no  *)
(* error), d["to"] is the header's addr attribute and d["key"] its base64  *)
(* keydata attribute.                                                      *)
(***************************************************************************)
EXTENDS Integers, Sequences, FiniteSets, TLC

VARIABLES
    config,      \* Config._dict: the in-memory configuration
    config_old,  \* Config._dict_old: the last committed snapshot
    shared,      \* TRUE when _dict["peers"] and _dict_old["peers"] are one object
    file,        \* the JSON file behind the configuration
    pc,          \* "idle", "called" (a message was handed to process_incoming), "returned"
    msg,         \* the argument of the current process_incoming call
    old,         \* process_incoming's local `old` (account.py:224)
    ret,         \* how the call ended: exception raised, PeerInfo returned
    FromList,    \* header selection on its own: the allow-list argument
    selected,    \* header selection on its own: the result
    accepted,    \* history (DateSpec): per peer, the date of the header accepted last
    loaded,      \* TRUE when Config._dict is cached: the file was read, or a rollback set it
    bingpg,      \* TRUE when Account.bingpg is cached
    args,        \* the codec on its own: the arguments of make_ac_header_value
    ac_header_value  \* the codec on its own: the header value, as text

vars ==
    <<config, config_old, shared, file, pc, msg, old, ret, FromList, selected,
      accepted, loaded, bingpg, args, ac_header_value>>

\* the variables of the codec on its own
codec == <<args, ac_header_value>>

\* the cached properties
caches == <<loaded, bingpg>>

(***************************************************************************)
(* Bounds of the model.                                                    *)
(***************************************************************************)
\* Parseable Date headers are the instants 1..MaxDate.
MaxDate == 2
\* A message handed to process_incoming carries 0..MaxHeaders Autocrypt headers.
MaxHeaders == 2
\* A message handed to header selection alone carries 0..MaxSelHeaders headers.
MaxSelHeaders == 3
\* A header value handed to the parser alone: 0..MaxText tokens, or
\* 0..MaxSegments segments between ";".
MaxText == 4
MaxSegments == 3

None == "None"

Addr == {"a@x.org", "b@x.org"}

(***************************************************************************)
(* Header codec (muacrypt/mime.py).                                        *)
(*                                                                         *)
(* A header value is modelled after value.split(";") and strip(): a        *)
(* sequence of segments, and each segment after split("=", 1) and strip(): *)
(* <<text>> when the segment holds no "=", <<name, value>> otherwise.      *)
(* The empty (or blank) segment is <<"">>.                                 *)
(***************************************************************************)
KeyData == {"k1", "k2"}

\* the public key material of the account's own key
OwnKeyData == "k0"

\* the empty byte string
NoBytes == ""

\* base64.b64encode on the key material used in the model
b64encode(keydata) ==
    CASE keydata = "k1" -> "azE="
      [] keydata = "k2" -> "azI="
      [] keydata = OwnKeyData -> "azA="
      [] keydata = NoBytes -> ""

Base64Texts == {b64encode(k) : k \in KeyData \cup {OwnKeyData, NoBytes}}

\* decode_keydata: base64.b64decode; raises on text that is not base64
\* (the empty text is base64: it decodes to the empty byte string)
decode_ok(text) == text \in Base64Texts

decode_keydata(text) ==
    CHOOSE k \in KeyData \cup {OwnKeyData, NoBytes} : b64encode(k) = text

\* names that start with "_" (name[0] == "_")
UnderscoreNames == {"_x", "_y"}

ACParseResult(keydata, addr, prefer_encrypt, extra_attr, error) ==
    [keydata |-> keydata, addr |-> addr, prefer_encrypt |-> prefer_encrypt,
     extra_attr |-> extra_attr, error |-> error, exc |-> None]

\* ACParseResult(error=...): every other attribute keeps its default None;
\* extra_attr (default None) is written {} here
ACError(error) == ACParseResult(None, None, None, {}, error)

\* an exception leaving the parser instead of a result
ACRaise(exception) ==
    [keydata |-> None, addr |-> None, prefer_encrypt |-> None,
     extra_attr |-> {}, error |-> None, exc |-> exception]

\* extra_attr[name] = value
set_extra(extra_attr, name, value) ==
    {p \in extra_attr : p[1] # name} \cup {<<name, value>>}

\* the loop of parse_ac_headervalue over the segments that filter(None, ...)
\* keeps, then the check for the critical attributes
RECURSIVE parse_parts(_, _, _)
parse_parts(parts, result_dict, extra_attr) ==
    IF parts = <<>>
    THEN IF result_dict.keydata = None
         THEN ACError("critical attr 'keydata' missing")
         ELSE IF result_dict.addr = None
         THEN ACError("critical attr 'addr' missing")
         ELSE ACParseResult(result_dict.keydata, result_dict.addr,
                            result_dict.prefer_encrypt, extra_attr, None)
    ELSE LET kv   == Head(parts)
             rest == Tail(parts)
         IN IF kv = <<"">>
            THEN parse_parts(rest, result_dict, extra_attr)
            ELSE IF Len(kv) # 2
            THEN ACError("malformed setting")
            ELSE LET name  == kv[1]
                     value == kv[2]
                 IN IF name = "keydata"
                    THEN IF decode_ok(value)
                         THEN parse_parts(rest,
                                [result_dict EXCEPT !.keydata = decode_keydata(value)],
                                extra_attr)
                         ELSE ACError("failed to decode keydata")
                    ELSE IF name = "prefer-encrypt"
                    THEN IF value \in {"nopreference", "mutual"}
                         THEN parse_parts(rest,
                                [result_dict EXCEPT !.prefer_encrypt = value],
                                extra_attr)
                         ELSE ACError("unknown prefer-encryp setting")
                    ELSE IF name = "addr"
                    THEN parse_parts(rest, [result_dict EXCEPT !.addr = value],
                                     extra_attr)
                    ELSE IF name = ""
                    THEN ACRaise("IndexError")
                    ELSE IF name \notin UnderscoreNames
                    THEN ACError("unknown critical attr")
                    ELSE parse_parts(rest, result_dict,
                                     set_extra(extra_attr, name, value))

\* parse_ac_headervalue.  `parts` is a filter object, which is true even
\* when it yields nothing, so the "empty header" return is never taken.
parse_ac_headervalue(value) ==
    parse_parts(value,
                [keydata |-> None, addr |-> None, prefer_encrypt |-> "nopreference"],
                {})

\* make_ac_header_value (keydata is not empty)
make_ac_header_value(addr, keydata, prefer_encrypt) ==
    <<<<"addr", addr>>>>
    \o (IF prefer_encrypt # "nopreference"
        THEN <<<<"prefer-encrypt", prefer_encrypt>>>>
        ELSE <<>>)
    \o <<<<"keydata", b64encode(keydata)>>>>

(***************************************************************************)
(* Header values as text.  A text is a sequence of tokens: ";", "=", " "   *)
(* (any whitespace, newline included) and words, which hold none of        *)
(* these.  In the texts of the model a ";" or a "=" stands between any two *)
(* words, so an attribute name is "" or one word.                          *)
(***************************************************************************)
\* the position of the first sep in s, 0 when there is none
find(s, sep) ==
    IF \E i \in 1..Len(s) : s[i] = sep
    THEN CHOOSE i \in 1..Len(s) : s[i] = sep /\ \A j \in 1..(i - 1) : s[j] # sep
    ELSE 0

\* s.split(sep)
RECURSIVE split(_, _)
split(s, sep) ==
    IF find(s, sep) = 0 THEN <<s>>
    ELSE <<SubSeq(s, 1, find(s, sep) - 1)>>
         \o split(SubSeq(s, find(s, sep) + 1, Len(s)), sep)

\* s.split(sep, 1)
split1(s, sep) ==
    IF find(s, sep) = 0 THEN <<s>>
    ELSE <<SubSeq(s, 1, find(s, sep) - 1), SubSeq(s, find(s, sep) + 1, Len(s))>>

\* s.strip()
strip(s) ==
    LET inked == {i \in 1..Len(s) : s[i] # " "}
    IN IF inked = {} THEN <<>>
       ELSE SubSeq(s, CHOOSE i \in inked : \A j \in inked : i <= j,
                      CHOOSE i \in inked : \A j \in inked : i >= j)

\* "".join(s.split())
join_split(s) == SelectSeq(s, LAMBDA t : t # " ")

\* the string that the tokens of s spell
RECURSIVE join(_)
join(s) == IF s = <<>> THEN "" ELSE Head(s) \o join(Tail(s))

\* the tokens of a base64 text
tokens(text) ==
    CASE text = "azE=" -> <<"azE", "=">>
      [] text = "azI=" -> <<"azI", "=">>
      [] text = "azA=" -> <<"azA", "=">>
      [] text = "" -> <<>>

\* indented_split(value), for a value of less than maxlen characters: one
\* line, the indent before it and nothing after it
indented_split(value) == <<" ", " ">> \o value

\* make_ac_header_value as text; addr is a text, keydata is not empty
make_ac_header_text(addr, keydata, prefer_encrypt) ==
    <<"addr", "=">> \o addr
    \o (IF prefer_encrypt # "nopreference"
        THEN <<";", " ", "prefer-encrypt", "=", prefer_encrypt>>
        ELSE <<>>)
    \o <<";", " ", "keydata", "=", " ">> \o indented_split(tokens(b64encode(keydata)))

\* one x of [x.strip() for x in value.split(";")] as parse_parts reads it:
\* <<"">> when filter(None, ...) drops it, else kv = x.split("=", 1) with
\* name and value stripped and the whitespace taken out of keydata
segment(x) ==
    IF strip(x) = <<>> THEN <<"">>
    ELSE LET kv == split1(strip(x), "=")
         IN IF Len(kv) # 2 THEN <<join(strip(x))>>
            ELSE LET name == join(strip(kv[1]))
                 IN <<name, IF name = "keydata" THEN join(join_split(kv[2]))
                            ELSE join(strip(kv[2]))>>

\* the segments of a header value given as text
segments(value) == [i \in 1..Len(split(value, ";")) |-> segment(split(value, ";")[i])]

\* parse_ac_headervalue on a header value given as text
parse_ac_header_text(value) == parse_ac_headervalue(segments(value))

(***************************************************************************)
(* Header selection from a message (muacrypt/mime.py).                     *)
(*                                                                         *)
(* A message is [From, Date, content_type, Autocrypt]: Autocrypt is        *)
(* msg.get_all("Autocrypt"), the header values in the order they appear.   *)
(* FromList is a set of addresses; {} stands for None and for the empty    *)
(* list alike (both fail `not FromList`).                                  *)
(***************************************************************************)
\* line 111: the test that sorts a parsed header into results
keep_result(r, FL) == r.error = None /\ (FL = {} \/ r.addr \in FL)

\* lines 116-123: the decision once every header is parsed
decide(results, err_results) ==
    IF Len(results) = 1 THEN results[1]
    ELSE IF Len(results) > 1
    THEN ACError("more than one valid Autocrypt header found")
    ELSE IF err_results # <<>> THEN err_results[1]
    ELSE ACError("no valid Autocrypt header found")

\* lines 107-114: the loop over the Autocrypt headers; an exception of the
\* parser leaves the function
RECURSIVE collect_results(_, _, _, _)
collect_results(values, FL, results, err_results) ==
    IF values = <<>> THEN decide(results, err_results)
    ELSE LET r == parse_ac_headervalue(Head(values))
         IN IF r.exc # None THEN r
            ELSE IF keep_result(r, FL)
            THEN collect_results(Tail(values), FL, Append(results, r), err_results)
            ELSE collect_results(Tail(values), FL, results, Append(err_results, r))

parse_one_ac_header_from_msg(m, FL) ==
    IF m.content_type = "multipart/report"
    THEN ACError("Ignoring 'multipart/report' message.")
    ELSE collect_results(m.Autocrypt, FL, <<>>, <<>>)

(***************************************************************************)
(* Dates.  A Date header is missing, text that is no RFC 2822 date, or a   *)
(* date; email.utils.parsedate gives None (written <<>>) for the first     *)
(* two and the time tuple (written <<t>>) for a date.                      *)
(***************************************************************************)
DateMissing == [kind |-> "missing", t |-> 0]

DateGarbage == [kind |-> "garbage", t |-> 0]

DateAt(t) == [kind |-> "rfc2822", t |-> t]

DateHeaders == {DateMissing, DateGarbage} \cup {DateAt(t) : t \in 1..MaxDate}

parsedate(date) == IF date.kind = "rfc2822" THEN <<date.t>> ELSE <<>>

\* x >= y on parsedate results: tuples compare, None does not
ge_raises(x, y) == x = <<>> \/ y = <<>>

ge(x, y) == x[1] >= y[1]

(***************************************************************************)
(* Config (core/autocrypt/account.py): the persistent dictionary.          *)
(*                                                                         *)
(* A top-level text key that the dictionary does not hold is Unset; the    *)
(* peers key is held when has_peers.  A peer entry is missing ("absent"),  *)
(* the empty dict ("empty") or a stored header dict ("header").            *)
(***************************************************************************)
Unset == "<unset>"

NoPeer(kind) ==
    [kind |-> kind, to |-> None, key |-> None, prefer_encrypt |-> None,
     extra_attr |-> {}, date |-> DateMissing, keyhandle |-> None]

EmptyDict ==
    [uuid |-> Unset, gpgmode |-> Unset, gpgbin |-> Unset, own_keyhandle |-> Unset,
     prefer_encrypt |-> Unset, has_peers |-> FALSE,
     peers |-> [a \in Addr |-> NoPeer("absent")]]

\* the file does not exist
NoFile == [present |-> FALSE, dict |-> EmptyDict]

\* json.dump(self._dict, f)
Dumped(d) == [present |-> TRUE, dict |-> d]

\* PersistentAttrMixin._dict, read through the cached property: on the
\* first read the file is loaded (or {} when there is none) and
\* _dict_old = d.copy(), a shallow copy, so a peers dict in d is shared
load(c, co, sh, f, ld) ==
    IF ld THEN [config |-> c, config_old |-> co, shared |-> sh]
    ELSE LET d == IF f.present THEN f.dict ELSE EmptyDict
         IN [config |-> d, config_old |-> d, shared |-> d.has_peers]

\* persistent_property get for a text key: self._dict.setdefault(name, typ())
getattr(d, name) == IF d[name] = Unset THEN [d EXCEPT ![name] = ""] ELSE d

\* persistent_property get for peers: self._dict.setdefault("peers", dict())
get_peers(d) == IF d.has_peers THEN d ELSE [d EXCEPT !.has_peers = TRUE]

\* Config.exists
exists(d) == d.uuid \notin {Unset, ""}

\* Account.bingpg can be built (otherwise NotInitialized)
bingpg_ok(d) == d.gpgmode \in {"own", "system"} /\ d.gpgbin \notin {Unset, ""}

\* BinGPG.import_keydata: the handle the keyring returns for key material
import_keydata(keydata) ==
    CASE keydata = "k1" -> "F1"
      [] keydata = "k2" -> "F2"
      [] keydata = OwnKeyData -> "F0"

\* BinGPG.get_public_keydata: the key material behind a handle
get_public_keydata(keyhandle) ==
    CASE keyhandle = "F1" -> "k1"
      [] keyhandle = "F2" -> "k2"
      [] keyhandle = "F0" -> OwnKeyData

\* base64.b64decode of d["key"]
b64decode(text) == decode_keydata(text)

(***************************************************************************)
(* Account.process_incoming and Account.get_peerinfo.                      *)
(***************************************************************************)
\* the dict d that process_incoming reads out of a selected header
ac_dict(r) ==
    [kind |-> "header", to |-> r.addr, key |-> b64encode(r.keydata),
     prefer_encrypt |-> r.prefer_encrypt, extra_attr |-> r.extra_attr,
     date |-> DateMissing, keyhandle |-> None]

\* line 227: if d
d_true(r) == r.error = None

\* line 228
to_is_any(d, From) == TRUE

to_is_From(d, From) == d.to = From

\* line 229: old.get("*date", date)
old_date(o, date) == IF o.kind = "header" THEN o.date ELSE date

\* line 229: the comparison raises
date_cmp_raises(date, o) ==
    ge_raises(parsedate(date), parsedate(old_date(o, date)))

\* line 229: parsedate(date) >= parsedate(old.get("*date", date))
date_any(date, o) == TRUE

date_ge(date, o) == ge(parsedate(date), parsedate(old_date(o, date)))

\* lines 230-233: d["*date"] = date; d["*keyhandle"] = keyhandle
stamp_drops_known_handle(d, date, keyhandle, o) ==
    [d EXCEPT !.date = date,
              !.keyhandle = IF o.keyhandle = keyhandle THEN None ELSE keyhandle]

\* ... without line 233
stamp_without_handle(d, date, keyhandle, o) == [d EXCEPT !.date = date]

stamp(d, date, keyhandle, o) == [d EXCEPT !.date = date, !.keyhandle = keyhandle]

\* line 237: elif old
old_never(o) == FALSE

old_true(o) == o.kind = "header"

\* PeerInfo(d); NoPeerInfo stands for the return value None
PeerInfo(d) ==
    [none |-> FALSE, keyhandle |-> d.keyhandle, date |-> d.date,
     dict |-> [to |-> d.to, key |-> d.key, prefer_encrypt |-> d.prefer_encrypt,
               extra_attr |-> d.extra_attr]]

NoPeerInfo ==
    [none |-> TRUE, keyhandle |-> None, date |-> DateMissing,
     dict |-> [to |-> None, key |-> None, prefer_encrypt |-> None, extra_attr |-> {}]]

\* Account.get_peerinfo without line 251: every record counts as a header
get_peerinfo_any(d, emailadr) == PeerInfo(d.peers[emailadr])

\* Account.get_peerinfo
get_peerinfo(d, emailadr) ==
    IF d.peers[emailadr].kind = "header" THEN PeerInfo(d.peers[emailadr])
    ELSE NoPeerInfo

Returned(info) == [raised |-> None, info |-> info]

Raised(exception) == [raised |-> exception, info |-> NoPeerInfo]

NotCalled == [raised |-> "<not called>", info |-> NoPeerInfo]

\* the call stored a header: it returned a PeerInfo
Accepted(rt) == rt.raised = None /\ ~rt.info.none

(***************************************************************************)
(* The steps.  A step result names the new values of the configuration     *)
(* variables, of the local `old` and of the way the call ended.            *)
(***************************************************************************)
Outcome(c, co, sh, f, o, rt) ==
    [config |-> c, config_old |-> co, shared |-> sh, file |-> f, old |-> o, ret |-> rt]

\* PersistentAttrMixin._commit, at the end of an atomic_change scope that
\* raised nothing: c and co are _dict and _dict_old at that point
commit(c, co, sh, f, o, rt) ==
    IF c # co
    THEN Outcome(c, c, c.has_peers, Dumped(c), o, rt)
    ELSE Outcome(c, co, sh, f, o, rt)

\* a store that puts the value under every address
store_peer_everywhere(c, co, sh, f, From, value, o, rt) ==
    commit([c EXCEPT !.peers = [a \in Addr |-> value]],
           IF sh THEN [co EXCEPT !.peers = [a \in Addr |-> value]] ELSE co,
           sh, f, o, rt)

\* with self.config.atomic_change(): self.config.peers[From] = value
\* (the dict behind _dict["peers"] is changed in place: the snapshot sees
\* the change when it shares that dict)
store_peer(c, co, sh, f, From, value, o, rt) ==
    commit([c EXCEPT !.peers[From] = value],
           IF sh THEN [co EXCEPT !.peers[From] = value] ELSE co,
           sh, f, o, rt)

\* Account.process_incoming(m) from configuration (c, co, sh, f); bp tells
\* whether Account.bingpg is cached
process_incoming_outcome(c, co, sh, f, bp, m) ==
    LET From == m.From[2]
        c1   == get_peers(c)
        o    == IF c1.peers[From].kind = "absent" THEN NoPeer("empty")
                ELSE c1.peers[From]
        r    == parse_one_ac_header_from_msg(m, {})
        date == m.Date
    IN IF r.exc # None
       THEN Outcome(c1, co, sh, f, o, Raised(r.exc))
       ELSE IF d_true(r)
       THEN IF to_is_From(ac_dict(r), From)
            THEN IF date_cmp_raises(date, o)
                 THEN Outcome(c1, co, sh, f, o, Raised("TypeError"))
                 ELSE IF date_ge(date, o)
                 THEN IF bp \/ bingpg_ok(c1)
                      THEN LET keydata   == b64decode(ac_dict(r).key)
                               keyhandle == import_keydata(keydata)
                               d         == stamp(ac_dict(r), date, keyhandle, o)
                           IN store_peer(c1, co, sh, f, From, d, o,
                                         Returned(PeerInfo(d)))
                      ELSE Outcome(getattr(c1, "gpgmode"), co, sh, f, o,
                                   Raised("NotInitialized"))
                 ELSE Outcome(c1, co, sh, f, o, Returned(NoPeerInfo))
            ELSE Outcome(c1, co, sh, f, o, Returned(NoPeerInfo))
       ELSE IF old_true(o)
       THEN store_peer(c1, co, sh, f, From, NoPeer("empty"), o, Returned(NoPeerInfo))
       ELSE Outcome(c1, co, sh, f, o, Returned(NoPeerInfo))

\* uuid.uuid4().hex: an identifier that no account had before
UUIDs == {"uuid4", "uuid4'", "uuid4''"}

uuid4(co, f) == CHOOSE u \in UUIDs : u \notin {co.uuid, f.dict.uuid}

\* the except branch of atomic_change: self._dict = self._dict_old.copy(),
\* then the exception goes on to the caller.  Before the first read of
\* _dict the snapshot is the {} of the constructor.
rollback(co, f, ld, o, exception) ==
    LET snapshot == IF ld THEN co ELSE EmptyDict
    IN Outcome(snapshot, snapshot, snapshot.has_peers, f, o, Raised(exception))

\* Account.init(gpgbin="gpg", keyhandle=None) when the key is generated
init_outcome(c, co, sh, f) ==
    commit([c EXCEPT !.uuid = uuid4(co, f), !.gpgmode = "own", !.gpgbin = "gpg",
                     !.own_keyhandle = "F0", !.prefer_encrypt = "notset"],
           co, sh, f, NoPeer("empty"), NotCalled)

(***************************************************************************)
(* Inputs.                                                                 *)
(***************************************************************************)
\* all sequences over S of length 0..n
SeqsUpTo(S, n) == UNION {[1..k -> S] : k \in 0..n}

\* what the senders advertise: address, key material, preference
Advertised ==
    {<<"a@x.org", "k1", "nopreference">>, <<"a@x.org", "k2", "mutual">>,
     <<"b@x.org", "k1", "mutual">>}

ValidHeaders == {make_ac_header_value(h[1], h[2], h[3]) : h \in Advertised}

\* an unknown critical attribute; an attribute with an empty name
UnknownAttrHeader == <<<<"addr", "a@x.org">>, <<"foo", "bar">>, <<"keydata", "azE=">>>>

EmptyNameHeader == <<<<"", "x">>>>

AcctHeaders == ValidHeaders \cup {UnknownAttrHeader, EmptyNameHeader}

ContentTypes == {"text/plain", "multipart/report"}

Messages ==
    [From : {<<"", a>> : a \in Addr}, Date : DateHeaders,
     content_type : ContentTypes, Autocrypt : SeqsUpTo(AcctHeaders, MaxHeaders)]

NoMsg ==
    [From |-> <<"", "">>, Date |-> DateMissing, content_type |-> "", Autocrypt |-> <<>>]

NotSelected == ACError("<not called>")

\* make_ac_header_value is not called
NoArgs == [addr |-> <<>>, keydata |-> None, prefer_encrypt |-> None]

(***************************************************************************)
(* Spec: one account, its configuration file, and the mail it processes.   *)
(***************************************************************************)
Init ==
    /\ config = EmptyDict
    /\ config_old = EmptyDict
    /\ shared = FALSE
    /\ file = NoFile
    /\ pc = "idle"
    /\ msg = NoMsg
    /\ old = NoPeer("empty")
    /\ ret = NotCalled
    /\ FromList = {}
    /\ selected = NotSelected
    /\ accepted = [a \in Addr |-> 0]
    /\ loaded = FALSE
    /\ bingpg = FALSE
    /\ args = NoArgs
    /\ ac_header_value = <<>>

\* the configuration as the cached property _dict gives it
Loaded == load(config, config_old, shared, file, loaded)

Apply(out) ==
    /\ loaded' = TRUE
    /\ config' = out.config
    /\ config_old' = out.config_old
    /\ shared' = out.shared
    /\ file' = out.file
    /\ old' = out.old
    /\ ret' = out.ret

\* Account.init()
init ==
    /\ pc = "idle"
    /\ ~exists(Loaded.config)
    /\ Apply(init_outcome(getattr(Loaded.config, "uuid"), Loaded.config_old,
                           Loaded.shared, file))
    /\ bingpg' = TRUE
    /\ UNCHANGED <<pc, msg, FromList, selected, accepted>>
    /\ UNCHANGED codec

\* a mail agent hands message m to process_incoming
call_process_incoming ==
    /\ pc = "idle"
    /\ \E m \in Messages : msg' = m
    /\ pc' = "called"
    /\ UNCHANGED <<config, config_old, shared, file, old, ret, FromList, selected,
                   accepted>>
    /\ UNCHANGED codec
    /\ UNCHANGED caches

\* Account.process_incoming(msg), without the history
process_incoming_step ==
    /\ pc = "called"
    /\ Apply(process_incoming_outcome(Loaded.config, Loaded.config_old, Loaded.shared,
                                       file, bingpg, msg))
    /\ bingpg' = (bingpg \/ Accepted(ret'))
    /\ pc' = "returned"
    /\ UNCHANGED <<msg, FromList, selected>>
    /\ UNCHANGED codec

\* Account.process_incoming(msg)
process_incoming ==
    /\ process_incoming_step
    /\ UNCHANGED accepted

\* the caller drops the call's result
forget_call ==
    /\ pc = "returned"
    /\ pc' = "idle"
    /\ msg' = NoMsg
    /\ old' = NoPeer("empty")
    /\ ret' = NotCalled
    /\ UNCHANGED <<config, config_old, shared, file, FromList, selected, accepted>>
    /\ UNCHANGED codec
    /\ UNCHANGED caches

Next == init \/ call_process_incoming \/ process_incoming \/ forget_call

Spec == Init /\ [][Next]_vars

(***************************************************************************)
(* SelSpec: header selection on its own, parse_one_ac_header_from_msg      *)
(* applied to a message and an allow-list drawn from the sets below.       *)
(***************************************************************************)
Prefs == {"nopreference", "mutual"}

AllValidHeaders ==
    {make_ac_header_value(a, k, p) : a \in Addr, k \in KeyData, p \in Prefs}

\* keydata that is no base64; no keydata; a segment without "="
BadKeydataHeader == <<<<"addr", "a@x.org">>, <<"keydata", "a">>>>

NoKeydataHeader == <<<<"addr", "b@x.org">>, <<"_x", "1">>>>

MalformedHeader == <<<<"addr", "a@x.org">>, <<"keydata">>>>

InvalidHeaders ==
    {UnknownAttrHeader, BadKeydataHeader, NoKeydataHeader, MalformedHeader,
     EmptyNameHeader}

SelHeaders == AllValidHeaders \cup InvalidHeaders

SelMessages ==
    [From : {<<"", "a@x.org">>}, Date : {DateMissing},
     content_type : ContentTypes, Autocrypt : SeqsUpTo(SelHeaders, MaxSelHeaders)]

SelInit ==
    /\ config = EmptyDict
    /\ config_old = EmptyDict
    /\ shared = FALSE
    /\ file = NoFile
    /\ pc = "select"
    /\ msg \in SelMessages
    /\ old = NoPeer("empty")
    /\ ret = NotCalled
    /\ FromList \in SUBSET Addr
    /\ selected = NotSelected
    /\ accepted = [a \in Addr |-> 0]
    /\ loaded = FALSE
    /\ bingpg = FALSE
    /\ args = NoArgs
    /\ ac_header_value = <<>>

\* mime.parse_one_ac_header_from_msg(msg, FromList)
select ==
    /\ pc = "select"
    /\ selected' = parse_one_ac_header_from_msg(msg, FromList)
    /\ pc' = "selected"
    /\ UNCHANGED <<config, config_old, shared, file, msg, old, ret, FromList, accepted>>
    /\ UNCHANGED codec
    /\ UNCHANGED caches

SelNext == select

SelSpec == SelInit /\ [][SelNext]_vars

(***************************************************************************)
(* CodecSpec: the header codec on its own.  make_ac_header_value is        *)
(* applied to arguments drawn from MakeArgs and parse_ac_headervalue to    *)
(* the value it made, and parse_ac_headervalue is applied to a header      *)
(* value drawn from the texts below.                                       *)
(***************************************************************************)
Separators == {";", "=", " "}

RawTokens == Separators \cup {"x", "_y"}

\* between two words stands a ";" or a "="
WellFormed(text) ==
    \A i, j \in 1..Len(text) :
        (i < j /\ text[i] \notin Separators /\ text[j] \notin Separators)
            => \E k \in (i + 1)..(j - 1) : text[k] \in {";", "="}

RawTexts == {text \in SeqsUpTo(RawTokens, MaxText) : WellFormed(text)}

\* what may stand between two ";"
SegmentTexts ==
    {<<"addr", "=", "a@x.org">>,
     <<" ", "addr", " ", "=", " ", "b@x.org", " ">>,
     <<"keydata", "=", "azE", "=">>,
     <<"keydata", "=", " ", " ", "azI", "=", " ">>,
     <<"keydata", "=">>,
     <<"keydata", "=", "a">>,
     <<"keydata">>,
     <<"prefer-encrypt", "=", "mutual">>,
     <<"prefer-encrypt", "=", "nopreference">>,
     <<"prefer-encrypt", "=", "yes">>,
     <<"_x", "=", "1">>,
     <<"foo", "=", "bar">>,
     <<"=", "x">>,
     <<" ">>,
     <<>>}

\* ";".join(xs)
RECURSIVE join_semicolon(_)
join_semicolon(xs) ==
    IF xs = <<>> THEN <<>>
    ELSE IF Len(xs) = 1 THEN xs[1]
    ELSE xs[1] \o <<";">> \o join_semicolon(Tail(xs))

SegmentedTexts == {join_semicolon(xs) : xs \in SeqsUpTo(SegmentTexts, MaxSegments)}

HeaderTexts == RawTexts \cup SegmentedTexts

\* addresses as text; the last one has a quoted local part
AddrTexts == {<<"a@x.org">>, <<"b@x.org">>, <<"\"a", ";", "b\"@x.org">>}

MakeArgs == [addr : AddrTexts, keydata : KeyData, prefer_encrypt : Prefs]

CodecInit ==
    /\ config = EmptyDict
    /\ config_old = EmptyDict
    /\ shared = FALSE
    /\ file = NoFile
    /\ msg = NoMsg
    /\ old = NoPeer("empty")
    /\ ret = NotCalled
    /\ FromList = {}
    /\ selected = NotSelected
    /\ accepted = [a \in Addr |-> 0]
    /\ loaded = FALSE
    /\ bingpg = FALSE
    /\ \/ pc = "make" /\ args \in MakeArgs /\ ac_header_value = <<>>
       \/ pc = "parse" /\ args = NoArgs /\ ac_header_value \in HeaderTexts

\* mime.make_ac_header_value(addr, keydata, prefer_encrypt)
make ==
    /\ pc = "make"
    /\ ac_header_value' = make_ac_header_text(args.addr, args.keydata, args.prefer_encrypt)
    /\ pc' = "parse"
    /\ UNCHANGED <<config, config_old, shared, file, msg, old, ret, FromList, selected,
                   accepted, args, loaded, bingpg>>

\* mime.parse_ac_headervalue(value)
parse ==
    /\ pc = "parse"
    /\ selected' = parse_ac_header_text(ac_header_value)
    /\ pc' = "parsed"
    /\ UNCHANGED <<config, config_old, shared, file, msg, old, ret, FromList, accepted>>
    /\ UNCHANGED codec
    /\ UNCHANGED caches

CodecNext == make \/ parse

CodecSpec == CodecInit /\ [][CodecNext]_vars

(***************************************************************************)
(* DateSpec: Spec with the history of accepted dates.  accepted[a] is the  *)
(* instant of the Date of the header that process_incoming accepted last   *)
(* for peer a, 0 before the first one.                                     *)
(***************************************************************************)
process_incoming_dated ==
    /\ process_incoming_step
    /\ accepted' =
         IF Accepted(ret')
         THEN [accepted EXCEPT ![msg.From[2]] = parsedate(ret'.info.date)[1]]
         ELSE accepted

DateNext == init \/ call_process_incoming \/ process_incoming_dated \/ forget_call

DateSpec == Init /\ [][DateNext]_vars

(***************************************************************************)
(* ReplaySpec: Spec where the mail agent may hand the message it has just  *)
(* processed to process_incoming once more.                                *)
(***************************************************************************)
\* Account.process_incoming(msg) on the message of the call that returned
process_incoming_again ==
    /\ pc = "returned"
    /\ Apply(process_incoming_outcome(Loaded.config, Loaded.config_old, Loaded.shared,
                                       file, bingpg, msg))
    /\ bingpg' = (bingpg \/ Accepted(ret'))
    /\ pc' = "replayed"
    /\ UNCHANGED <<msg, FromList, selected, accepted>>
    /\ UNCHANGED codec

\* the caller drops the result of the second call
forget_replay ==
    /\ pc = "replayed"
    /\ pc' = "idle"
    /\ msg' = NoMsg
    /\ old' = NoPeer("empty")
    /\ ret' = NotCalled
    /\ UNCHANGED <<config, config_old, shared, file, FromList, selected, accepted>>
    /\ UNCHANGED codec
    /\ UNCHANGED caches

ReplayNext ==
    \/ init
    \/ call_process_incoming
    \/ process_incoming
    \/ process_incoming_again
    \/ forget_call
    \/ forget_replay

ReplaySpec == Init /\ [][ReplayNext]_vars

(***************************************************************************)
(* CfgSpec: the account over its life.  Next to init and process_incoming  *)
(* the program sets the preference, removes the account, fails inside an   *)
(* atomic_change scope, and ends: a new process builds a new Account over  *)
(* the same directory.                                                     *)
(***************************************************************************)
\* the mail of CfgSpec: from one sender, dated, with at most one header
CfgMessages ==
    [From : {<<"", a>> : a \in Addr}, Date : {DateAt(t) : t \in 1..MaxDate},
     content_type : {"text/plain"},
     Autocrypt : {<<>>} \cup {<<h>> : h \in ValidHeaders}]

call_process_incoming_cfg ==
    /\ pc = "idle"
    /\ \E m \in CfgMessages : msg' = m
    /\ pc' = "called"
    /\ UNCHANGED <<config, config_old, shared, file, old, ret, FromList, selected,
                   accepted>>
    /\ UNCHANGED codec
    /\ UNCHANGED caches

\* Account.init() when gen_secret_key raises, or init(keyhandle=...) when
\* no secret key matches (ValueError): the scope has set uuid, gpgmode and
\* gpgbin and has built bingpg when the exception leaves it
init_fails ==
    /\ pc = "idle"
    /\ ~exists(Loaded.config)
    /\ \E exception \in {"GPGError", "ValueError"} :
          Apply(rollback(Loaded.config_old, file, TRUE, NoPeer("empty"), exception))
    /\ bingpg' = TRUE
    /\ pc' = "raised"
    /\ UNCHANGED <<msg, FromList, selected, accepted>>
    /\ UNCHANGED codec

\* Account.set_prefer_encrypt(value) with one of "yes", "no", "notset"
set_prefer_encrypt ==
    /\ pc = "idle"
    /\ \E v \in {"yes", "no", "notset"} :
          Apply(commit([Loaded.config EXCEPT !.prefer_encrypt = v], Loaded.config_old,
                       Loaded.shared, file, NoPeer("empty"), NotCalled))
    /\ UNCHANGED <<pc, msg, FromList, selected, accepted, bingpg>>
    /\ UNCHANGED codec

\* Account.set_prefer_encrypt(value) with any other text: the setter raises
\* ValueError before it reads _dict
set_prefer_encrypt_fails ==
    /\ pc = "idle"
    /\ Apply(rollback(config_old, file, loaded, NoPeer("empty"), "ValueError"))
    /\ pc' = "raised"
    /\ UNCHANGED <<msg, FromList, selected, accepted, bingpg>>
    /\ UNCHANGED codec

\* the caller has handled the exception
forget_raise ==
    /\ pc = "raised"
    /\ pc' = "idle"
    /\ ret' = NotCalled
    /\ UNCHANGED <<config, config_old, shared, file, msg, old, FromList, selected,
                   accepted>>
    /\ UNCHANGED codec
    /\ UNCHANGED caches

\* Account.remove(): the directory goes, and _dict is emptied in place;
\* _dict_old and bingpg stay as they are
remove ==
    /\ pc = "idle"
    /\ file.present
    /\ loaded' = TRUE
    /\ config' = EmptyDict
    /\ config_old' = IF loaded THEN config_old ELSE EmptyDict
    /\ shared' = FALSE
    /\ file' = NoFile
    /\ UNCHANGED <<pc, msg, old, ret, FromList, selected, accepted, bingpg>>
    /\ UNCHANGED codec

\* the process ends and a new one constructs Account(dir)
restart ==
    /\ pc = "idle"
    /\ loaded
    /\ loaded' = FALSE
    /\ bingpg' = FALSE
    /\ config' = EmptyDict
    /\ config_old' = EmptyDict
    /\ shared' = FALSE
    /\ UNCHANGED <<file, pc, msg, old, ret, FromList, selected, accepted>>
    /\ UNCHANGED codec

CfgNext ==
    \/ init
    \/ init_fails
    \/ set_prefer_encrypt
    \/ set_prefer_encrypt_fails
    \/ forget_raise
    \/ remove
    \/ restart
    \/ call_process_incoming_cfg
    \/ process_incoming
    \/ forget_call

CfgSpec == Init /\ [][CfgNext]_vars

(***************************************************************************)
(* SendSpec: an account makes a header for an address of its own with      *)
(* Account.make_header, and a mail from that address that carries the      *)
(* header is handed to process_incoming.  Sender and receiver are the same *)
(* account: of the sender only the own key and the preference matter, of   *)
(* the receiver only the peers.  args is (emailadr, keydata,               *)
(* prefer_encrypt) as make_header passes them on, ac_header_value the      *)
(* value it returns with headername "".                                    *)
(***************************************************************************)
\* Account.make_header(emailadr, headername="") of an account whose bingpg
\* can be built
make_header(d, emailadr) ==
    make_ac_header_text(<<emailadr>>, get_public_keydata(d.own_keyhandle),
                        d.prefer_encrypt)

call_make_header ==
    /\ pc = "idle"
    /\ \E emailadr \in Addr :
          IF bingpg \/ bingpg_ok(Loaded.config)
          THEN /\ args' = [addr |-> <<emailadr>>,
                           keydata |-> get_public_keydata(Loaded.config.own_keyhandle),
                           prefer_encrypt |-> Loaded.config.prefer_encrypt]
               /\ ac_header_value' = make_header(Loaded.config, emailadr)
               /\ Apply(Outcome(Loaded.config, Loaded.config_old, Loaded.shared, file,
                                old, ret))
               /\ bingpg' = TRUE
               /\ pc' = "idle"
          ELSE /\ Apply(Outcome(getattr(Loaded.config, "gpgmode"), Loaded.config_old,
                                Loaded.shared, file, old, Raised("NotInitialized")))
               /\ pc' = "raised"
               /\ UNCHANGED <<bingpg, args, ac_header_value>>
    /\ UNCHANGED <<msg, FromList, selected, accepted>>

\* the mail that gen_mail_msg builds around the header: From is the address
\* the header was made for, Autocrypt the header value
MadeMails ==
    IF args = NoArgs THEN {}
    ELSE [From : {<<"", args.addr[1]>>}, Date : {DateAt(t) : t \in 1..MaxDate},
          content_type : {"text/plain"}, Autocrypt : {<<segments(ac_header_value)>>}]

call_process_incoming_made ==
    /\ pc = "idle"
    /\ \E m \in MadeMails : msg' = m
    /\ pc' = "called"
    /\ UNCHANGED <<config, config_old, shared, file, old, ret, FromList, selected,
                   accepted>>
    /\ UNCHANGED codec
    /\ UNCHANGED caches

SendNext ==
    \/ init
    \/ set_prefer_encrypt
    \/ call_make_header
    \/ forget_raise
    \/ call_process_incoming_made
    \/ call_process_incoming_cfg
    \/ process_incoming
    \/ forget_call

SendSpec == Init /\ [][SendNext]_vars

(***************************************************************************)
(* Recommendation (muacrypt.recommendation), over the peers of an account: *)
(* disable when a recipient has no stored header, encrypt when every       *)
(* recipient prefers mutual and the account prefers encryption, available  *)
(* otherwise.                                                              *)
(***************************************************************************)
target_keys(d, recipients) ==
    [a \in recipients |-> get_peerinfo(d, a).keyhandle]

ui_recommendation(d, recipients) ==
    IF \E a \in recipients : get_peerinfo(d, a).none THEN "disable"
    ELSE IF /\ \A a \in recipients : get_peerinfo(d, a).dict.prefer_encrypt = "mutual"
            /\ d.prefer_encrypt = "yes"
    THEN "encrypt"
    ELSE "available"

(***************************************************************************)
(* What a message carries.                                                 *)
(***************************************************************************)
Sender(m) == m.From[2]

IsDate(date) == date.kind = "rfc2822"

IsReport(m) == m.content_type = "multipart/report"

\* the positions of the Autocrypt headers of m that parse without error
ValidAt(m) ==
    {i \in 1..Len(m.Autocrypt) :
        LET r == parse_ac_headervalue(m.Autocrypt[i])
        IN r.exc = None /\ r.error = None}

\* ... and those among them that declare address a
ValidFor(m, a) == {i \in ValidAt(m) : parse_ac_headervalue(m.Autocrypt[i]).addr = a}

\* some Autocrypt header of m makes the parser raise
RaisesAt(m) ==
    {i \in 1..Len(m.Autocrypt) : parse_ac_headervalue(m.Autocrypt[i]).exc # None}

\* m is no report, and of its Autocrypt headers exactly one is valid, and
\* that one declares the sender: the header of m
HasOneHeaderOfSender(m) ==
    /\ ~IsReport(m)
    /\ RaisesAt(m) = {}
    /\ Cardinality(ValidAt(m)) = 1
    /\ ValidFor(m, Sender(m)) = ValidAt(m)

\* the header dict of the single valid header of m
TheHeader(m) ==
    ac_dict(parse_ac_headervalue(m.Autocrypt[CHOOSE i \in ValidAt(m) : TRUE]))

\* the account was initialized (Account.init)
Initialized == exists(config) /\ bingpg_ok(config)

(***************************************************************************)
(* C1.  Stale header never overwrites newer state: when the peer has a     *)
(* stored header with date D and process_incoming handles a message of     *)
(* that sender whose header is valid for the sender and whose Date is      *)
(* strictly earlier than D, the stored record (header, key handle, date)   *)
(* is after the call what it was before.                                   *)
(***************************************************************************)
C1_Case ==
    /\ pc = "returned"
    /\ old.kind = "header"
    /\ HasOneHeaderOfSender(msg)
    /\ IsDate(msg.Date) /\ IsDate(old.date)
    /\ msg.Date.t < old.date.t

C2_DateNeverDecreases ==
    [][(pc = "called" /\ Accepted(ret'))
          => parsedate(ret'.info.date)[1] >= accepted[Sender(msg)]]_vars

(***************************************************************************)
(* C3.  A message in which an Autocrypt header was found but selection     *)
(* yields an error (no header parses, or more than one valid header of     *)
(* the sender) does not change the sender's stored record: a stored        *)
(* header keeps header, key handle and date and is not cleared.            *)
(***************************************************************************)
C3_Case ==
    /\ pc = "returned"
    /\ old.kind = "header"
    /\ ~IsReport(msg)
    /\ msg.Autocrypt # <<>>
    /\ RaisesAt(msg) = {}
    /\ \/ ValidAt(msg) = {}
       \/ /\ Cardinality(ValidAt(msg)) > 1
          /\ ValidFor(msg, Sender(msg)) = ValidAt(msg)

C3_ErrorLeavesPeer == C3_Case => config.peers[Sender(msg)] = old

(***************************************************************************)
(* C4.  process_incoming on an initialized account never raises, whatever  *)
(* the headers (none, invalid, valid, several) and the Date (present,      *)
(* missing, unparsable) of the message and whatever is stored.             *)
(***************************************************************************)
C4_NeverRaises == (pc = "returned" /\ Initialized) => ret.raised = None

(***************************************************************************)
(* C5.  Every peer record that holds a header is stored under the address  *)
(* the header declares (in memory, in the snapshot and in the file); a     *)
(* returned PeerInfo is one of the sender; and for a message whose valid   *)
(* headers all declare another address than From nothing is stored and no  *)
(* peer state is returned.                                                 *)
(***************************************************************************)
UnderDeclaredAddress(d) ==
    \A a \in Addr : d.peers[a].kind = "header" => d.peers[a].to = a

OnlyForeignHeaders(m) ==
    ~IsReport(m) /\ ValidAt(m) # {} /\ ValidFor(m, Sender(m)) = {}

C6_Case ==
    /\ pc = "returned"
    /\ Initialized
    /\ ~IsReport(msg)
    /\ ValidAt(msg) = 1..Len(msg.Autocrypt)
    /\ Cardinality(ValidFor(msg, Sender(msg))) = 1
    /\ Cardinality(ValidAt(msg)) > 1
    /\ IsDate(msg.Date)
    /\ old.kind = "header" => msg.Date.t >= old.date.t

C6_SelectionRestrictedToSender ==
    C6_Case =>
        LET i == CHOOSE i \in ValidFor(msg, Sender(msg)) : TRUE
            h == ac_dict(parse_ac_headervalue(msg.Autocrypt[i]))
        IN /\ config.peers[Sender(msg)].kind = "header"
           /\ config.peers[Sender(msg)].key = h.key
           /\ config.peers[Sender(msg)].date = msg.Date

(***************************************************************************)
(* C7.  With an allow-list, every result that header selection returns     *)
(* without an error has its addr in the allow-list.  (SelSpec)             *)
(***************************************************************************)
C7_ResultInAllowList ==
    (pc = "selected" /\ FromList # {} /\ selected.exc = None /\ selected.error = None)
        => selected.addr \in FromList

(***************************************************************************)
(* C8.  For a message with more than one surviving valid header, header    *)
(* selection returns the "more than one valid" error and none of the       *)
(* headers, whatever the order of the headers and whatever invalid         *)
(* headers are also present.  (SelSpec)                                    *)
(***************************************************************************)
Surviving(m, FL) ==
    {i \in ValidAt(m) : FL = {} \/ parse_ac_headervalue(m.Autocrypt[i]).addr \in FL}

C8_AmbiguousIsError ==
    (pc = "selected" /\ ~IsReport(msg) /\ Cardinality(Surviving(msg, FromList)) > 1)
        => /\ selected.exc = None
           /\ selected.error = "more than one valid Autocrypt header found"

(***************************************************************************)
(* C9.  Acceptance with greater-or-equal dates: for a message whose header *)
(* is valid for the sender and whose Date is later than or equal to the    *)
(* stored date (or the sender has no stored header), the key is imported   *)
(* and afterwards the stored record is the new header, the key handle the  *)
(* import returned and the message's date; the returned PeerInfo reports   *)
(* that key handle and date.                                               *)
(***************************************************************************)
C9_Case ==
    /\ pc = "returned"
    /\ Initialized
    /\ HasOneHeaderOfSender(msg)
    /\ \/ old.kind # "header"
       \/ IsDate(msg.Date) /\ IsDate(old.date) /\ msg.Date.t >= old.date.t

C9_AcceptedAndStored ==
    C9_Case =>
        LET h == TheHeader(msg)
            d == [h EXCEPT !.date = msg.Date,
                           !.keyhandle = import_keydata(decode_keydata(h.key))]
        IN /\ config.peers[Sender(msg)] = d
           /\ ret = Returned(PeerInfo(d))

(***************************************************************************)
(* C10.  Opt-out by silence: when the peer has a stored header and         *)
(* process_incoming handles a message of that sender with no Autocrypt     *)
(* header that is no multipart/report, the stored header becomes absent,   *)
(* get_peerinfo returns nothing for the address and the recommendation     *)
(* for that recipient is disable; when the peer had no stored header, the  *)
(* same message leaves the peers as they were.                             *)
(***************************************************************************)
NoAutocryptMail(m) == ~IsReport(m) /\ m.Autocrypt = <<>>

C10_OptOutBySilence ==
    [][(pc = "called" /\ NoAutocryptMail(msg))
          => /\ config.peers[Sender(msg)].kind = "header"
                   => /\ config'.peers[Sender(msg)].kind = "empty"
                      /\ get_peerinfo(config', Sender(msg)).none
                      /\ ui_recommendation(config', {Sender(msg)}) = "disable"
                      /\ target_keys(config', {Sender(msg)})[Sender(msg)] = None
             /\ config.peers[Sender(msg)].kind # "header"
                   => config'.peers = config.peers]_vars

C10_Witness ==
    /\ pc = "returned"
    /\ NoAutocryptMail(msg)
    /\ old.kind = "header"
    /\ get_peerinfo(config, Sender(msg)).none
    /\ ui_recommendation(config, {Sender(msg)}) = "disable"

(***************************************************************************)
(* C11.  A multipart/report message never changes peer state: with or      *)
(* without Autocrypt header, process_incoming of it neither stores a       *)
(* header for the sender nor clears a header the sender has.               *)
(***************************************************************************)
C11_ReportChangesNothing ==
    [][(pc = "called" /\ IsReport(msg)) => config'.peers = config.peers]_vars

(***************************************************************************)
(* C12.  Idempotence: for every message and every reachable store,         *)
(* processing the message a second time right after the first leaves the   *)
(* stored peer state (in memory and in the file) as the first processing   *)
(* left it.  (ReplaySpec)                                                  *)
(***************************************************************************)
C12_Idempotent ==
    [][(pc = "returned" /\ pc' = "replayed")
          => config'.peers = config.peers /\ file' = file]_vars

C12_Witness ==
    /\ pc = "replayed"
    /\ Accepted(ret)
    /\ old.kind = "header"
    /\ config.peers[Sender(msg)] = old

(***************************************************************************)
(* C13.  Codec round trip: for every address, every non-empty key          *)
(* material and every preference in {nopreference, mutual}, parsing the    *)
(* value that make_ac_header_value made gives a result without error       *)
(* whose addr, keydata and prefer_encrypt are the arguments; the value     *)
(* lists addr, then prefer-encrypt (left out for nopreference), then       *)
(* keydata.  (CodecSpec)                                                   *)
(***************************************************************************)
C13_RoundTrip ==
    (pc = "parsed" /\ args # NoArgs)
        => /\ selected.exc = None
           /\ selected.error = None
           /\ selected.addr = join(args.addr)
           /\ selected.keydata = args.keydata
           /\ selected.prefer_encrypt = args.prefer_encrypt
           /\ [i \in 1..Len(segments(ac_header_value)) |-> segments(ac_header_value)[i][1]]
                 = IF args.prefer_encrypt = "nopreference"
                   THEN <<"addr", "keydata">>
                   ELSE <<"addr", "prefer-encrypt", "keydata">>

(***************************************************************************)
(* C14.  Every result of parse_ac_headervalue without error has addr and   *)
(* keydata set and prefer_encrypt in {nopreference, mutual}, nopreference  *)
(* when the value holds no prefer-encrypt attribute; and a value that      *)
(* lacks addr or keydata, or that holds an attribute name other than       *)
(* addr, keydata, prefer-encrypt and the names starting with "_", gives    *)
(* an error result, whatever else it holds and in whatever order.          *)
(* (CodecSpec)                                                             *)
(***************************************************************************)
\* the attribute names of a header value given as text
Names(text) ==
    {segments(text)[i][1] : i \in {j \in 1..Len(segments(text)) : Len(segments(text)[j]) = 2}}

C14_ResultComplete ==
    pc = "parsed"
        => /\ (selected.exc = None /\ selected.error = None)
                => /\ selected.addr # None
                   /\ selected.keydata # None
                   /\ selected.prefer_encrypt \in {"nopreference", "mutual"}
                   /\ "prefer-encrypt" \notin Names(ac_header_value)
                         => selected.prefer_encrypt = "nopreference"
           /\ (\/ "addr" \notin Names(ac_header_value)
               \/ "keydata" \notin Names(ac_header_value)
               \/ Names(ac_header_value)
                     \ ({"addr", "keydata", "prefer-encrypt"} \cup UnderscoreNames) # {})
                => selected.exc = None /\ selected.error # None

(***************************************************************************)
(* C15.  parse_ac_headervalue is total and reports failures as values: for *)
(* every header value (the empty one, those of ";" and whitespace only,    *)
(* those with a segment without "=" or with an empty attribute name) it    *)
(* returns a result and does not raise; a value with no segment gives the  *)
(* "empty header" error, and a value whose first segment is not one        *)
(* name=value pair gives the "malformed setting" error.  (CodecSpec)       *)
(***************************************************************************)
\* the segments of a header value that filter(None, ...) keeps
Kept(text) == SelectSeq(segments(text), LAMBDA kv : kv # <<"">>)

C15_ParserTotal ==
    pc = "parsed"
        => /\ selected.exc = None
           /\ Kept(ac_header_value) = <<>> => selected.error = "empty header"
           /\ (Kept(ac_header_value) # <<>> /\ Len(Kept(ac_header_value)[1]) # 2)
                 => selected.error = "malformed setting"

(***************************************************************************)
(* C16.  Rollback on failure: when an exception is raised inside an        *)
(* atomic_change scope, afterwards the configuration in memory is the      *)
(* configuration as it was last committed, for every key and for the       *)
(* peers, nothing was written to the file, and the exception reaches the   *)
(* caller.  (CfgSpec)                                                      *)
(***************************************************************************)
\* (the configuration as last committed is what the file holds, as long as
\* the account was not removed)
C16_RollbackOnFailure ==
    [][(pc = "idle" /\ pc' = "raised")
          => /\ file.present => config' = file.dict
             /\ config_old' = config'
             /\ file' = file
             /\ ret'.raised # None]_vars

(***************************************************************************)
(* C17.  Commit on success: after an atomic_change scope that ends without *)
(* exception the file, the snapshot and the configuration in memory are    *)
(* equal; every peer update and every clear of process_incoming, the first *)
(* and each later one, is in the file; and the file is written only when   *)
(* the configuration differs from the snapshot.                            *)
(***************************************************************************)
\* the step is a process_incoming call that ran its atomic_change scope,
\* for a mail without header or with the one header of its sender
ScopeRan ==
    /\ pc = "called"
    /\ NoAutocryptMail(msg) \/ HasOneHeaderOfSender(msg)
    /\ ret'.raised = None
    /\ Accepted(ret') \/ config'.peers # Loaded.config.peers

C17_CommitOnSuccess ==
    [][/\ ScopeRan => file' = Dumped(config') /\ config_old' = config'
       /\ file' # file => file' = Dumped(config') /\ config' # Loaded.config_old]_vars

(***************************************************************************)
(* C18.  Account.init is all or nothing: when it fails inside its scope,   *)
(* afterwards exists() is false, uuid, gpgmode, gpgbin and own_keyhandle   *)
(* are set neither in memory nor in the file, prefer_encrypt is as it was, *)
(* and init can be called again; when it succeeds, the five keys are set,  *)
(* prefer_encrypt is "notset" and exists() is true.  (CfgSpec)             *)
(***************************************************************************)
InitKeys == {"uuid", "gpgmode", "gpgbin", "own_keyhandle"}

C18_InitAllOrNothing ==
    [][/\ init_fails
          => /\ ~exists(config')
             /\ \A k \in InitKeys :
                   config'[k] \in {Unset, ""} /\ file'.dict[k] \in {Unset, ""}
             /\ config'.prefer_encrypt = Loaded.config.prefer_encrypt
             /\ file' = file
       /\ init
          => /\ exists(config')
             /\ \A k \in InitKeys : config'[k] \notin {Unset, ""}
             /\ config'.prefer_encrypt = "notset"
             /\ file' = Dumped(config')]_vars

(***************************************************************************)
(* C19.  Missing key disables: in every state that process_incoming calls  *)
(* lead to, for every set of recipients of which at least one has no       *)
(* stored header (none was ever stored, or it was cleared), the            *)
(* recommendation is disable and target_keys reports None for each such    *)
(* recipient.                                                              *)
(***************************************************************************)
RecipientSets == SUBSET Addr \ {{}}

\* the peers as the account reads them
Stored(a) == Loaded.config.peers[a]

HasHeader(a) == Stored(a).kind = "header"

C19_MissingKeyDisables ==
    \A R \in RecipientSets :
        (\E a \in R : ~HasHeader(a))
            => /\ ui_recommendation(Loaded.config, R) = "disable"
               /\ \A a \in R :
                     ~HasHeader(a) => target_keys(Loaded.config, R)[a] = None

\* one recipient has a header, the other was cleared by the call that
\* just returned
C19_Witness ==
    /\ pc = "returned"
    /\ NoAutocryptMail(msg)
    /\ old.kind = "header"
    /\ ~HasHeader(Sender(msg))
    /\ \E b \in Addr : HasHeader(b)
    /\ ui_recommendation(Loaded.config, Addr) = "disable"
    /\ target_keys(Loaded.config, Addr)[Sender(msg)] = None

(***************************************************************************)
(* C20.  Recommendation with all keys known: for every set of recipients   *)
(* that all have a stored header, the recommendation is encrypt exactly    *)
(* when every stored header declares prefer_encrypt mutual and the         *)
(* account's own preference is yes, and available otherwise; it is never   *)
(* discourage, and target_keys gives for each recipient the stored key     *)
(* handle, which is not empty.  (CfgSpec)                                  *)
(***************************************************************************)
AllMutual(R) == \A a \in R : Stored(a).prefer_encrypt = "mutual"

C20_AllKeysKnown ==
    \A R \in RecipientSets :
        (\A a \in R : HasHeader(a))
            => LET rec == ui_recommendation(Loaded.config, R)
               IN /\ rec = "encrypt"
                       <=> (AllMutual(R) /\ Loaded.config.prefer_encrypt = "yes")
                  /\ rec # "encrypt" => rec = "available"
                  /\ rec # "discourage"
                  /\ \A a \in R :
                        /\ target_keys(Loaded.config, R)[a] = Stored(a).keyhandle
                        /\ target_keys(Loaded.config, R)[a] \notin {None, ""}

\* the account prefers encryption, both recipients have a header that
\* declares mutual, the last of them stored by the call that just
\* returned: the recommendation is encrypt
C20_Witness ==
    /\ pc = "returned"
    /\ Accepted(ret)
    /\ HasOneHeaderOfSender(msg)
    /\ TheHeader(msg).prefer_encrypt = "mutual"
    /\ Loaded.config.prefer_encrypt = "yes"
    /\ \A a \in Addr : HasHeader(a)
    /\ ui_recommendation(Loaded.config, Addr) = "encrypt"
    /\ \A a \in Addr : target_keys(Loaded.config, Addr)[a] \in {"F1", "F2"}

(***************************************************************************)
(* C21.  A generated header is accepted: whatever the preference of the    *)
(* account (yes, no, notset), the value that make_header returns for an    *)
(* address parses without error with that address as addr, and             *)
(* process_incoming of a mail from that address that carries the value     *)
(* leaves a header stored for the sender.  (SendSpec)                      *)
(***************************************************************************)
MadeMail(m) == m \in MadeMails

C21_GeneratedHeaderAccepted ==
    [][(pc = "called" /\ MadeMail(msg))
          => /\ parse_ac_header_text(ac_header_value).exc = None
             /\ parse_ac_header_text(ac_header_value).error = None
             /\ parse_ac_header_text(ac_header_value).addr = Sender(msg)
             /\ config'.peers[Sender(msg)].kind = "header"]_vars

(***************************************************************************)
(* C22.  Per-peer isolation: process_incoming of a message from address X  *)
(* changes at most the record of peer X; the record of every other address *)
(* and the account's own uuid, gpgmode, gpgbin, own_keyhandle and          *)
(* prefer_encrypt, as the account reads them, are what they were, for      *)
(* every message and every reachable store.                                *)
(***************************************************************************)
OwnKeys == {"uuid", "gpgmode", "gpgbin", "own_keyhandle", "prefer_encrypt"}

\* a text key as the persistent property returns it
Read(d, k) == getattr(d, k)[k]

C22_PeerIsolation ==
    [][pc = "called"
          => /\ \A b \in Addr \ {Sender(msg)} :
                   config'.peers[b] = Loaded.config.peers[b]
             /\ \A k \in OwnKeys : Read(config', k) = Read(Loaded.config, k)]_vars

\* the call that just returned changed the record of the sender while
\* another peer has a header, which is not the one just stored
C22_Witness ==
    /\ pc = "returned"
    /\ exists(config)
    /\ config.peers[Sender(msg)] # old
    /\ \E b \in Addr \ {Sender(msg)} :
          /\ config.peers[b].kind = "header"
          /\ config.peers[b] # config.peers[Sender(msg)]

====
